---- MODULE Spec2Model ----
(***************************************************************************)
(* Local-first store and cloud reconciliation of bookmarkly (lib/store).   *)
(* One browser tab: the localStorage partitions, the cached owner, the     *)
(* shared sync status, the pullFromCloud passes in flight, the write-      *)
(* through upserts in flight, and the remote tables behind row level       *)
(* security.                                                               *)
(*                                                                         *)
(* An entity is a record of the fields the store reads or compares: id,    *)
(* name (title of a note), type, category_id, position, created_at,        *)
(* updated_at, is_deleted, user_id.  url, notes, body, color, subtype,     *)
(* is_pinned and the file_* fields are copied through unchanged by the     *)
(* code and are left out.  A select returns its rows in ascending id       *)
(* order.  An upsert carries the token of the session at the moment it is  *)
(* issued; its serving and the continuation of the awaiting caller are one *)
(* step.                                                                   *)
(*                                                                         *)
(* Spec interleaves everything.  SpecSeq and SpecRepo run one call or pass *)
(* at a time to completion (links only, resp. categories and links with    *)
(* reordering, one owner); SpecAuth interleaves auth events of two owners  *)
(* with adds and passes.                                                   *)
(***************************************************************************)
EXTENDS Integers, Sequences, FiniteSets, TLC

\* ---------------------------------------------------------------- bounds
MaxId == 2         \* uuids ever generated (entities ever created here)
MaxTime == 2       \* readings of the millisecond clock
MaxInflight == 1   \* write-through upserts awaiting the server
MaxPasses == 2     \* pullFromCloud invocations in flight at once
MaxTimers == 1     \* pending setTimeout(pullFromCloud, 500) callbacks
MaxRev == 2        \* versions of one entity ever handed to the sync queue
MaxFlushes == 2    \* flushSyncQueue invocations awaiting the server at once

\* ------------------------------------------------------- program constants
NullId == 0        \* category_id: null
NullTime == 0      \* lastSync: null

NoUser == "none"   \* cachedUserId: null / user_id: undefined
Owners == {"A", "B"}
LINKS_KEY == "links"
CATEGORIES_KEY == "categories"
NOTES_KEY == "notes"
Kinds == {CATEGORIES_KEY, LINKS_KEY, NOTES_KEY}
Names == {"a", "b"}
LinkTypes == {"Web", "Video"}
NoteType == "None"
Ids == 1..MaxId
\* the entities handed to the queue: one category and the links
QueueKeys == {<<CATEGORIES_KEY, 1>>} \cup ({LINKS_KEY} \X Ids)

VARIABLES
    store,          \* localStorage: key -> persisted array
    storageFull,    \* localStorage.setItem throws (quota exceeded)
    remote,         \* remote tables: key -> set of rows (primary key id)
    cachedUserId,   \* module-level cached owner
    session,        \* the auth collaborator's current session user
    restored,       \* supabase.auth.getSession() has resolved
    timers,         \* pending setTimeout(pullFromCloud, 500)
    syncStatus,     \* { lastSync, status, message }
    passes,         \* pullFromCloud invocations, by slot
    inflight,       \* awaited write-through upserts not yet served
    reorderTask,    \* the awaiting upsert loop of reorderLinks/Categories
    now,            \* new Date()
    nextId,         \* next uuid
    listeners,      \* the Set of subscribed listeners, in insertion order
    calls,          \* the listeners invoked by the latest notify(), in order
    deleteResult,   \* deleteAllUserData: the call in flight or its last result
    peer,           \* a second device of owner A: its localStorage, pass, status
    syncQueue,      \* older variant: pending { table, data } items, in order
    syncTimer,      \* older variant: setTimeout(flushSyncQueue, 500) is pending
    flushes,        \* older variant: flushSyncQueue invocations, by slot
    latest,         \* older variant: data last enqueued per (table, id)
    cloud           \* older variant: data the remote holds per (table, id)

vars == <<store, storageFull, remote, cachedUserId, session, restored, timers,
          syncStatus, passes, inflight, reorderTask, now, nextId, listeners,
          calls, deleteResult, peer, syncQueue, syncTimer, flushes, latest,
          cloud>>

\* the debounced sync queue of the older store variant
debounced == <<syncQueue, syncTimer, flushes, latest, cloud>>

\* what the handlers of the store itself leave alone: the listener registry,
\* the account deletion, the other device
apart == <<listeners, deleteResult, peer, debounced>>

\* ------------------------------------------------------------- sequences
RECURSIVE SeqOfSet(_)
\* rows of a select, in ascending id order
SeqOfSet(S) ==
    IF S = {} THEN <<>>
    ELSE LET m == CHOOSE r \in S : \A q \in S : r.id <= q.id
         IN <<m>> \o SeqOfSet(S \ {m})

IdsOf(seq) == {seq[i].id : i \in 1..Len(seq)}

\* Array.prototype.findIndex(e => e.id === id), 0 for -1
findIndex(all, id) ==
    IF \E i \in 1..Len(all) : all[i].id = id
    THEN CHOOSE i \in 1..Len(all) :
            all[i].id = id /\ \A j \in 1..(i - 1) : all[j].id # id
    ELSE 0

EmptyTables == [k \in Kinds |-> <<>>]
EmptyRemote == [k \in Kinds |-> {}]

\* ---------------------------------------------------------- local storage
loadLocal(key) == store[key]

\* the store after saveLocal(key, data); a failing setItem is swallowed
saveLocal(st, key, data) ==
    IF storageFull THEN st ELSE [st EXCEPT ![key] = data]

\* the origin's localStorage quota is used up, or space is freed again
QuotaChange(full) ==
    /\ storageFull # full
    /\ storageFull' = full
    /\ UNCHANGED <<store, remote, cachedUserId, session, restored, timers,
                   syncStatus, passes, inflight, reorderTask, now, nextId,
                   listeners, calls, deleteResult, peer, debounced>>

getAll(key) == SelectSeq(loadLocal(key), LAMBDA e : ~e.is_deleted)
getCategories == getAll(CATEGORIES_KEY)
getLinks == getAll(LINKS_KEY)
getNotes == getAll(NOTES_KEY)

\* ------------------------------------------------------------ the remote
\* a payload that leaves is_deleted to the column default
upsertRowLive(e, userId) == [e EXCEPT !.user_id = userId, !.is_deleted = FALSE]

\* the upsert payload: the entity with the owner stamped
upsertRow(e, userId) == [e EXCEPT !.user_id = userId]

\* row level security of insert ... on conflict (id) do update, for a request
\* carrying the token of user tok
rlsAllows(rows, row, tok) ==
    /\ tok # NoUser
    /\ row.user_id = tok
    /\ \A r \in rows : r.id = row.id => r.user_id = tok

\* an insert that does not resolve the conflict on id
serveUpsertInsert(rows, row, tok, netOk) ==
    IF netOk /\ rlsAllows(rows, row, tok) THEN rows \cup {row} ELSE rows

\* the table after an upsert request has been served
serveUpsert(rows, row, tok, netOk) ==
    IF netOk /\ rlsAllows(rows, row, tok)
    THEN {r \in rows : r.id # row.id} \cup {row}
    ELSE rows

upsertOk(rows, row, tok, netOk) == netOk /\ rlsAllows(rows, row, tok)

\* select * from table where user_id = userId, as user tok
selectAll(rows, userId, tok) ==
    SeqOfSet({r \in rows : r.user_id = userId /\ r.user_id = tok})

\* --------------------------------------------------- change notification
Listeners == {"f", "g", "h"}
Throwing == {"g"}   \* listeners whose invocation throws

\* listeners.add(fn): a Set keeps one entry per function, in insertion order
setAdd(ls, fn) ==
    IF \E i \in 1..Len(ls) : ls[i] = fn THEN ls ELSE Append(ls, fn)

\* listeners.delete(fn)
setDelete(ls, fn) == SelectSeq(ls, LAMBDA g : g # fn)

\* notify() of src/lib/store.ts: listeners.forEach(fn => fn()); the first
\* listener that throws ends the iteration and the exception leaves notify()
RECURSIVE notifyStoreTs(_)
notifyStoreTs(ls) ==
    IF ls = <<>> THEN <<>>
    ELSE IF Head(ls) \in Throwing THEN <<Head(ls)>>
    ELSE <<Head(ls)>> \o notifyStoreTs(Tail(ls))

\* whether an invocation of the listeners throws
throws(ls) == \E i \in 1..Len(ls) : ls[i] \in Throwing

\* notify(): listeners.forEach(fn => { try { fn(); } catch ... }); the
\* listeners invoked, in order
RECURSIVE notify(_)
notify(ls) ==
    IF ls = <<>> THEN <<>>
    ELSE <<Head(ls)>> \o notify(Tail(ls))

\* subscribe(fn), and the function it returns
subscribe(fn) ==
    /\ listeners' = setAdd(listeners, fn)
    /\ UNCHANGED <<store, storageFull, remote, cachedUserId, session, restored,
                   timers, syncStatus, passes, inflight, reorderTask, now, nextId,
                   calls, deleteResult, peer, debounced>>

unsubscribe(fn) ==
    /\ listeners' = setDelete(listeners, fn)
    /\ UNCHANGED <<store, storageFull, remote, cachedUserId, session, restored,
                   timers, syncStatus, passes, inflight, reorderTask, now, nextId,
                   calls, deleteResult, peer, debounced>>

\* ------------------------------------------------------------ sync status
IdleStatus == [lastSync |-> NullTime, status |-> "idle", message |-> ""]

IdlePass == [pc |-> "idle", userId |-> NoUser, tok |-> NoUser,
             R |-> EmptyTables, lo |-> EmptyTables, queue |-> <<>>,
             pushCount |-> 0]

NoReorder == [queue |-> <<>>, key |-> LINKS_KEY, userId |-> NoUser, tok |-> NoUser]

NoDelete == [message |-> "", userId |-> NoUser]

PeerOwner == "A"
IdlePeer == [store |-> EmptyTables, pass |-> IdlePass, syncStatus |-> IdleStatus]

Init ==
    /\ store = EmptyTables
    /\ storageFull = FALSE
    /\ remote = EmptyRemote
    /\ cachedUserId = NoUser
    /\ session \in Owners \cup {NoUser}
    /\ restored = FALSE
    /\ timers = 0
    /\ syncStatus = IdleStatus
    /\ passes = [p \in 1..MaxPasses |-> IdlePass]
    /\ inflight = {}
    /\ reorderTask = NoReorder
    /\ now = 1
    /\ nextId = 1
    /\ listeners = <<>>
    /\ calls = <<>>
    /\ deleteResult = NoDelete
    /\ peer = IdlePeer
    /\ syncQueue = <<>>
    /\ syncTimer = FALSE
    /\ flushes = [f \in 1..MaxFlushes |-> <<>>]
    /\ latest = [k \in QueueKeys |-> 0]
    /\ cloud = [k \in QueueKeys |-> 0]

\* ------------------------------------------------------------ environment
Tick ==
    /\ now < MaxTime
    /\ now' = now + 1
    /\ UNCHANGED <<store, storageFull, apart, remote, cachedUserId, session, restored,
                   timers, syncStatus, passes, inflight, reorderTask, nextId,
                   calls>>

\* ------------------------------------------------- session/identity tracker
\* a handler that erases on every event without an owner and schedules a pass
\* on every event with one
AuthEventEager(u) ==
    /\ u # NoUser => timers < MaxTimers
    /\ session' = u
    /\ cachedUserId' = u
    /\ timers' = IF u # NoUser THEN timers + 1 ELSE timers
    /\ store' = IF u = NoUser THEN EmptyTables ELSE store
    /\ calls' = IF u = NoUser THEN notify(listeners) ELSE calls
    /\ UNCHANGED <<storageFull, apart, remote, restored, syncStatus, passes, inflight,
                   reorderTask, now, nextId>>

\* supabase.auth.onAuthStateChange((_event, session) => ...)
AuthEvent(u) ==
    LET prevUserId == cachedUserId IN
    /\ (u # NoUser /\ prevUserId = NoUser) => timers < MaxTimers
    /\ session' = u
    /\ cachedUserId' = u
    /\ timers' = IF u # NoUser /\ prevUserId = NoUser THEN timers + 1 ELSE timers
    /\ store' = IF u = NoUser /\ prevUserId # NoUser THEN EmptyTables ELSE store
    /\ calls' = IF u = NoUser /\ prevUserId # NoUser THEN notify(listeners) ELSE calls
    /\ UNCHANGED <<storageFull, apart, remote, restored, syncStatus, passes, inflight,
                   reorderTask, now, nextId>>

\* supabase.auth.getSession().then(({ data }) => ...)
GetSessionResolve ==
    /\ ~restored
    /\ restored' = TRUE
    /\ cachedUserId' = session
    /\ UNCHANGED <<store, storageFull, apart, remote, session, timers, syncStatus,
                   passes, inflight, reorderTask, now, nextId, calls>>

\* --------------------------------------------------------- pullFromCloud
\* a head that does not look at the owner
startPullUnchecked(p) ==
    /\ passes[p].pc = "idle"
    /\ \A q \in 1..(p - 1) : passes[q].pc # "idle"
    /\ calls' = notify(listeners)
    /\ syncStatus' = [syncStatus EXCEPT !.status = "syncing",
                                        !.message = "Syncing..."]
    /\ passes' = [passes EXCEPT ![p] = [IdlePass EXCEPT !.pc = "fetching",
                                                        !.userId = cachedUserId,
                                                        !.tok = cachedUserId]]

\* the synchronous head of pullFromCloud, run in slot p
startPull(p) ==
    LET userId == cachedUserId IN
    /\ passes[p].pc = "idle"
    /\ \A q \in 1..(p - 1) : passes[q].pc # "idle"
    /\ calls' = notify(listeners)
    /\ IF userId = NoUser
       THEN /\ syncStatus' = [lastSync |-> NullTime, status |-> "error",
                              message |-> "Not signed in"]
            /\ passes' = passes
       ELSE /\ syncStatus' = [syncStatus EXCEPT !.status = "syncing",
                                                !.message = "Syncing..."]
            /\ passes' = [passes EXCEPT ![p] =
                            [IdlePass EXCEPT !.pc = "fetching",
                                             !.userId = userId,
                                             !.tok = userId]]

\* the user's "sync now": fullSync = pullFromCloud
SyncNow(p) ==
    /\ startPull(p)
    /\ UNCHANGED <<store, storageFull, apart, remote, cachedUserId, session, restored,
                   timers, inflight, reorderTask, now, nextId>>

\* setTimeout(() => { pullFromCloud() }, 500) fires
TimerFire(p) ==
    /\ timers > 0
    /\ timers' = timers - 1
    /\ startPull(p)
    /\ UNCHANGED <<store, storageFull, apart, remote, cachedUserId, session, restored,
                   inflight, reorderTask, now, nextId>>

\* a pass that persists its local-only entities alone
composedLocalOnly(P) == [k \in Kinds |-> P.lo[k]]

\* a pass that keeps the stored entity of a fetched id where there is one
composedKeepingLocal(P) ==
    [k \in Kinds |->
        [i \in 1..Len(P.R[k]) |->
            IF findIndex(loadLocal(k), P.R[k][i].id) # 0
            THEN loadLocal(k)[findIndex(loadLocal(k), P.R[k][i].id)]
            ELSE P.R[k][i]] \o P.lo[k]]

\* a pass that appends what it composed to the stored array
composedAppending(P) == [k \in Kinds |-> loadLocal(k) \o P.R[k] \o P.lo[k]]

\* [...remote, ...localOnly] of every kind, persisted
composed(P) == [k \in Kinds |-> P.R[k] \o P.lo[k]]

storeAfterPull(P) ==
    saveLocal(saveLocal(saveLocal(store, CATEGORIES_KEY, composed(P)[CATEGORIES_KEY]),
                        LINKS_KEY, composed(P)[LINKS_KEY]),
              NOTES_KEY, composed(P)[NOTES_KEY])

successStatus(P) ==
    [lastSync |-> now, status |-> "success",
     message |-> IF P.pushCount > 0 THEN "Synced!, pushed" ELSE "Synced!"]

\* a catch that reports the error with a fresh status object
PassFetchResetting(p, err) ==
    LET P == passes[p] IN
    /\ P.pc = "fetching"
    /\ IF err = "ok"
       THEN /\ passes' = [passes EXCEPT ![p].pc = "fetched",
                             ![p].R = [k \in Kinds |->
                                         selectAll(remote[k], P.userId, P.tok)]]
            /\ syncStatus' = syncStatus
            /\ calls' = calls
       ELSE /\ passes' = [passes EXCEPT ![p] = IdlePass]
            /\ syncStatus' = [lastSync |-> NullTime, status |-> "error",
                              message |-> "Sync failed: " \o err]
            /\ calls' = notify(listeners)
    /\ UNCHANGED <<store, storageFull, apart, remote, cachedUserId, session, restored,
                   timers, inflight, reorderTask, now, nextId>>

\* a fetch whose error escapes the pass: the call rejects and reports nothing
PassFetchRejecting(p, err) ==
    LET P == passes[p] IN
    /\ P.pc = "fetching"
    /\ IF err = "ok"
       THEN passes' = [passes EXCEPT ![p].pc = "fetched",
                          ![p].R = [k \in Kinds |->
                                      selectAll(remote[k], P.userId, P.tok)]]
       ELSE passes' = [passes EXCEPT ![p].pc = "rejected"]
    /\ UNCHANGED <<store, storageFull, apart, remote, cachedUserId, session, restored,
                   timers, inflight, reorderTask, now, nextId, syncStatus, calls>>

\* the three selects are served; an error of any of them is thrown and caught
PassFetch(p, err) ==
    LET P == passes[p] IN
    /\ P.pc = "fetching"
    /\ IF err = "ok"
       THEN /\ passes' = [passes EXCEPT ![p].pc = "fetched",
                             ![p].R = [k \in Kinds |->
                                         selectAll(remote[k], P.userId, P.tok)]]
            /\ syncStatus' = syncStatus
            /\ calls' = calls
       ELSE /\ passes' = [passes EXCEPT ![p] = IdlePass]
            /\ syncStatus' = [lastSync |-> syncStatus.lastSync, status |-> "error",
                              message |-> "Sync failed: " \o err]
            /\ calls' = notify(listeners)
    /\ UNCHANGED <<store, storageFull, apart, remote, cachedUserId, session, restored,
                   timers, inflight, reorderTask, now, nextId>>

\* a partition that leaves out the entities without an owner stamp
localOnlyOwned(local, R) ==
    SelectSeq(local, LAMBDA e : e.id \notin IdsOf(R) /\ e.user_id # NoUser)

\* localOnly of one kind
localOnly(local, R) == SelectSeq(local, LAMBDA e : e.id \notin IdsOf(R))

tagged(key, seq) == [i \in 1..Len(seq) |-> [key |-> key, e |-> seq[i]]]

\* a pass that persists the fetched rows before it pushes
PassMergePersisting(p) ==
    LET P  == passes[p]
        lo == [k \in Kinds |-> localOnly(loadLocal(k), P.R[k])]
        q  == tagged(CATEGORIES_KEY, lo[CATEGORIES_KEY])
                \o tagged(LINKS_KEY, lo[LINKS_KEY])
                \o tagged(NOTES_KEY, lo[NOTES_KEY])
        P1 == [P EXCEPT !.lo = lo, !.queue = q, !.pc = "pushing",
                        !.tok = cachedUserId]
    IN
    /\ P.pc = "fetched"
    /\ store' = storeAfterPull(P1)
    /\ calls' = notify(listeners)
    /\ IF q = <<>>
       THEN /\ syncStatus' = successStatus(P1)
            /\ passes' = [passes EXCEPT ![p] = IdlePass]
       ELSE /\ syncStatus' = syncStatus
            /\ passes' = [passes EXCEPT ![p] = P1]
    /\ UNCHANGED <<storageFull, apart, remote, cachedUserId, session, restored, timers,
                   inflight, reorderTask, now, nextId>>

\* the pass resumes with the fetched rows: loads, partitions, and either starts
\* the push loop or, with nothing to push, persists at once
PassMerge(p) ==
    LET P  == passes[p]
        lo == [k \in Kinds |-> localOnly(loadLocal(k), P.R[k])]
        q  == tagged(CATEGORIES_KEY, lo[CATEGORIES_KEY])
                \o tagged(LINKS_KEY, lo[LINKS_KEY])
                \o tagged(NOTES_KEY, lo[NOTES_KEY])
        P1 == [P EXCEPT !.lo = lo, !.queue = q, !.pc = "pushing",
                        !.tok = cachedUserId]
    IN
    /\ P.pc = "fetched"
    /\ IF q = <<>>
       THEN /\ store' = storeAfterPull(P1)
            /\ syncStatus' = successStatus(P1)
            /\ passes' = [passes EXCEPT ![p] = IdlePass]
            /\ calls' = notify(listeners)
       ELSE /\ store' = store
            /\ syncStatus' = syncStatus
            /\ passes' = [passes EXCEPT ![p] = P1]
            /\ calls' = calls
    /\ UNCHANGED <<storageFull, apart, remote, cachedUserId, session, restored, timers,
                   inflight, reorderTask, now, nextId>>

\* one awaited upsert of the push loop is served and the loop goes on; after
\* the last one the composed state is persisted
PassPush(p, netOk) ==
    LET P   == passes[p]
        h   == Head(P.queue)
        row == upsertRow(h.e, P.userId)
        ok  == upsertOk(remote[h.key], row, P.tok, netOk)
        P1  == [P EXCEPT !.queue = Tail(P.queue),
                         !.pushCount = IF ok THEN @ + 1 ELSE @,
                         !.tok = cachedUserId]
    IN
    /\ P.pc = "pushing"
    /\ remote' = [remote EXCEPT ![h.key] = serveUpsert(@, row, P.tok, netOk)]
    /\ IF P1.queue = <<>>
       THEN /\ store' = storeAfterPull(P1)
            /\ syncStatus' = successStatus(P1)
            /\ passes' = [passes EXCEPT ![p] = IdlePass]
            /\ calls' = notify(listeners)
       ELSE /\ store' = store
            /\ syncStatus' = syncStatus
            /\ passes' = [passes EXCEPT ![p] = P1]
            /\ calls' = calls
    /\ UNCHANGED <<storageFull, apart, cachedUserId, session, restored, timers,
                   inflight, reorderTask, now, nextId>>

\* ----------------------------------------------------- entity repositories
UndefS == "undefined"   \* a field absent from a Partial<> patch (string)
UndefN == 0 - 1         \* a field absent from a Partial<> patch (id)

Entity(id, name, type, categoryId, position, t, userId) ==
    [id |-> id, name |-> name, type |-> type, category_id |-> categoryId,
     position |-> position, created_at |-> t, updated_at |-> t,
     is_deleted |-> FALSE, user_id |-> userId]

RECURSIVE MaxPosition(_)
\* Math.max(...existing.map(c => c.position ?? 0)), -1 for none
MaxPosition(existing) ==
    IF existing = <<>> THEN 0 - 1
    ELSE LET m == MaxPosition(Tail(existing))
         IN IF Head(existing).position > m THEN Head(existing).position ELSE m

\* a write-through that does not look at the owner
writeThroughAlways(key, e) ==
    /\ Cardinality(inflight) < MaxInflight
    /\ inflight' = inflight \cup {[key |-> key, row |-> upsertRow(e, cachedUserId),
                                    tok |-> cachedUserId, notify |-> FALSE]}

\* if (userId) { await upsertX(entity, userId); }: the request leaves with the
\* current token
writeThrough(key, e) ==
    LET userId == cachedUserId IN
    /\ userId # NoUser => Cardinality(inflight) < MaxInflight
    /\ inflight' = IF userId # NoUser
                   THEN inflight \cup {[key |-> key, row |-> upsertRow(e, userId),
                                        tok |-> userId, notify |-> FALSE]}
                   ELSE inflight

\* what every add shares: push, saveLocal, notify, write through
addEntity(key, e) ==
    /\ nextId <= MaxId
    /\ nextId' = nextId + 1
    /\ store' = saveLocal(store, key, Append(loadLocal(key), e))
    /\ calls' = notify(listeners)
    /\ writeThrough(key, e)
    /\ UNCHANGED <<storageFull, apart, remote, cachedUserId, session, restored, timers,
                   syncStatus, passes, reorderTask, now>>

addCategory(name, type) ==
    LET existing == SelectSeq(getCategories, LAMBDA c : c.type = type)
        maxPos   == MaxPosition(existing)
    IN addEntity(CATEGORIES_KEY,
                 Entity(nextId, name, type, NullId, maxPos + 1, now, cachedUserId))

addLink(name, type, categoryId) ==
    addEntity(LINKS_KEY, Entity(nextId, name, type, categoryId, 0, now, cachedUserId))

addNote(title) ==
    addEntity(NOTES_KEY, Entity(nextId, title, NoteType, NullId, 0, now, cachedUserId))

\* a patch applied with the fields it leaves undefined
patchedWhole(e, updates) ==
    [e EXCEPT !.name = updates.name,
              !.category_id = updates.category_id,
              !.updated_at = now]

\* the fields of a patch that are not undefined, then the new updated_at
patched(e, updates) ==
    [e EXCEPT !.name = IF updates.name # UndefS THEN updates.name ELSE @,
              !.category_id = IF updates.category_id # UndefN
                              THEN updates.category_id ELSE @,
              !.updated_at = now]

softDeleted(e) == [e EXCEPT !.is_deleted = TRUE, !.updated_at = now]

\* what update and delete share: findIndex, early return, the change of
\* all[idx], saveLocal, notify, write through
mutateEntity(key, id, updates, isDelete) ==
    LET all == loadLocal(key)
        idx == findIndex(all, id)
    IN
    /\ IF idx = 0
       THEN UNCHANGED <<store, inflight, calls>>
       ELSE LET all1 == [all EXCEPT ![idx] = IF isDelete THEN softDeleted(@)
                                             ELSE patched(@, updates)]
            IN /\ store' = saveLocal(store, key, all1)
               /\ calls' = notify(listeners)
               /\ writeThrough(key, all1[idx])
    /\ UNCHANGED <<storageFull, apart, remote, cachedUserId, session, restored, timers,
                   syncStatus, passes, reorderTask, now, nextId>>

NamePatches == {[name |-> n, category_id |-> UndefN] : n \in Names}
CategoryIdPatches ==
    {[name |-> UndefS, category_id |-> c] : c \in {NullId} \cup IdsOf(getCategories)}

NoPatch == [name |-> UndefS, category_id |-> UndefN]

updateCategory(id, updates) == mutateEntity(CATEGORIES_KEY, id, updates, FALSE)
updateLink(id, updates) == mutateEntity(LINKS_KEY, id, updates, FALSE)
updateNote(id, updates) == mutateEntity(NOTES_KEY, id, updates, FALSE)

deleteCategory(id) == mutateEntity(CATEGORIES_KEY, id, NoPatch, TRUE)
deleteLink(id) == mutateEntity(LINKS_KEY, id, NoPatch, TRUE)
deleteNote(id) == mutateEntity(NOTES_KEY, id, NoPatch, TRUE)

\* a loop that stamps the index in the stored array instead of the index in
\* orderedIds
RECURSIVE reorderFromArrayIndex(_, _, _, _)
reorderFromArrayIndex(all, toUpdate, orderedIds, i) ==
    IF i > Len(orderedIds) THEN [all |-> all, toUpdate |-> toUpdate]
    ELSE LET ai == findIndex(all, orderedIds[i]) IN
         IF ai = 0 THEN reorderFromArrayIndex(all, toUpdate, orderedIds, i + 1)
         ELSE LET e == [all[ai] EXCEPT !.position = ai - 1, !.updated_at = now]
              IN reorderFromArrayIndex([all EXCEPT ![ai] = e], Append(toUpdate, e),
                                       orderedIds, i + 1)

\* orderedIds.forEach((id, index) => ...) from index i on: the array and toUpdate
RECURSIVE reorderFrom(_, _, _, _)
reorderFrom(all, toUpdate, orderedIds, i) ==
    IF i > Len(orderedIds) THEN [all |-> all, toUpdate |-> toUpdate]
    ELSE LET ai == findIndex(all, orderedIds[i]) IN
         IF ai = 0 THEN reorderFrom(all, toUpdate, orderedIds, i + 1)
         ELSE LET e == [all[ai] EXCEPT !.position = i - 1, !.updated_at = now]
              IN reorderFrom([all EXCEPT ![ai] = e], Append(toUpdate, e),
                             orderedIds, i + 1)

reorderEntities(key, orderedIds) ==
    LET userId == cachedUserId
        res    == reorderFrom(loadLocal(key), <<>>, orderedIds, 1)
    IN
    /\ reorderTask.queue = <<>>
    /\ store' = saveLocal(store, key, res.all)
    /\ calls' = notify(listeners)
    /\ reorderTask' = IF userId # NoUser /\ res.toUpdate # <<>>
                      THEN [queue |-> res.toUpdate, key |-> key,
                            userId |-> userId, tok |-> userId]
                      ELSE NoReorder
    /\ UNCHANGED <<storageFull, apart, remote, cachedUserId, session, restored, timers,
                   syncStatus, passes, inflight, now, nextId>>

reorderCategories(orderedIds) == reorderEntities(CATEGORIES_KEY, orderedIds)
reorderLinks(orderedIds) == reorderEntities(LINKS_KEY, orderedIds)

\* for (const x of toUpdate) { await upsertX(x, userId); }: one upsert served
ReorderPush(netOk) ==
    LET T   == reorderTask
        row == upsertRow(Head(T.queue), T.userId)
    IN
    /\ T.queue # <<>>
    /\ remote' = [remote EXCEPT ![T.key] = serveUpsert(@, row, T.tok, netOk)]
    /\ reorderTask' = IF Len(T.queue) = 1 THEN NoReorder
                      ELSE [T EXCEPT !.queue = Tail(@), !.tok = cachedUserId]
    /\ UNCHANGED <<store, storageFull, apart, cachedUserId, session, restored, timers,
                   syncStatus, passes, inflight, now, nextId, calls>>

\* a write-through upsert is served (or lost on the network)
RemoteApply(req, netOk) ==
    /\ req \in inflight
    /\ inflight' = inflight \ {req}
    /\ remote' = [remote EXCEPT ![req.key] = serveUpsert(@, req.row, req.tok, netOk)]
    /\ calls' = IF req.notify THEN notify(listeners) ELSE calls
    /\ UNCHANGED <<store, storageFull, apart, cachedUserId, session, restored, timers,
                   syncStatus, passes, reorderTask, now, nextId>>

\* ------------------------------------------------- src/lib/store.ts addNote
\* addNote of src/lib/store.ts: the owner is the user of the session
\* (supabase.auth.getUser()); push, saveLocal, notify(), then syncNoteToCloud,
\* which an exception out of notify() skips
addNoteStoreTs(title) ==
    LET userId == session
        note   == Entity(nextId, title, NoteType, NullId, 0, now, userId)
        all    == loadLocal(NOTES_KEY)
    IN
    /\ nextId <= MaxId
    /\ nextId' = nextId + 1
    /\ store' = saveLocal(store, NOTES_KEY, Append(all, note))
    /\ calls' = notifyStoreTs(listeners)
    /\ IF throws(listeners) \/ userId = NoUser
       THEN inflight' = inflight
       ELSE /\ Cardinality(inflight) < MaxInflight
            /\ inflight' = inflight \cup {[key |-> NOTES_KEY,
                                            row |-> upsertRow(note, userId),
                                            tok |-> userId, notify |-> FALSE]}
    /\ UNCHANGED <<storageFull, apart, remote, cachedUserId, session, restored,
                   timers, syncStatus, passes, reorderTask, now>>

\* ----------------------------------------------------------- importFromCSV
\* a row's id column: empty (NullId), or an id of an earlier export
RowIds == {NullId} \cup {i \in Ids : i < nextId}

\* an import that pushes every row
importFromCSVAppending(fileType, rowId, name) ==
    LET userId == cachedUserId
        id     == IF rowId = NullId THEN nextId ELSE rowId
        e      == Entity(id, name, "Web", NullId, 0, now, userId)
    IN
    /\ rowId = NullId => nextId <= MaxId
    /\ nextId' = IF rowId = NullId THEN nextId + 1 ELSE nextId
    /\ store' = saveLocal(store, fileType, Append(loadLocal(fileType), e))
    /\ userId # NoUser => Cardinality(inflight) < MaxInflight
    /\ inflight' = IF userId # NoUser
                   THEN inflight \cup {[key |-> fileType, row |-> upsertRow(e, userId),
                                        tok |-> userId, notify |-> TRUE]}
                   ELSE inflight
    /\ calls' = IF userId # NoUser THEN calls ELSE notify(listeners)
    /\ UNCHANGED <<storageFull, apart, remote, cachedUserId, session, restored,
                   timers, syncStatus, passes, reorderTask, now>>

\* importFromCSV of a file with one data row: the entity replaces the one of
\* its id or is pushed, is saved and written through; notify() follows the
\* awaited upsert
importFromCSV(fileType, rowId, name) ==
    LET userId   == cachedUserId
        id       == IF rowId = NullId THEN nextId ELSE rowId
        e        == Entity(id, name, "Web", NullId, 0, now, userId)
        all      == loadLocal(fileType)
        existing == findIndex(all, id)
        all1     == IF existing # 0 THEN [all EXCEPT ![existing] = e]
                    ELSE Append(all, e)
    IN
    /\ rowId = NullId => nextId <= MaxId
    /\ nextId' = IF rowId = NullId THEN nextId + 1 ELSE nextId
    /\ store' = saveLocal(store, fileType, all1)
    /\ userId # NoUser => Cardinality(inflight) < MaxInflight
    /\ inflight' = IF userId # NoUser
                   THEN inflight \cup {[key |-> fileType, row |-> upsertRow(e, userId),
                                        tok |-> userId, notify |-> TRUE]}
                   ELSE inflight
    /\ calls' = IF userId # NoUser THEN calls ELSE notify(listeners)
    /\ UNCHANGED <<storageFull, apart, remote, cachedUserId, session, restored,
                   timers, syncStatus, passes, reorderTask, now>>

\* ------------------------------------------------------ deleteAllUserData
\* the head of deleteAllUserData: without an owner it returns at once, with one
\* it goes on to await the remote deletes
deleteAllUserData ==
    LET userId == cachedUserId IN
    /\ deleteResult.message # "deleting"
    /\ deleteResult' = IF userId = NoUser
                       THEN [message |-> "Not signed in", userId |-> NoUser]
                       ELSE [message |-> "deleting", userId |-> userId]
    /\ UNCHANGED <<store, storageFull, remote, cachedUserId, session, restored,
                   timers, syncStatus, passes, inflight, reorderTask, now, nextId,
                   listeners, calls, peer, debounced>>

\* the awaited deletes, rpc and signOut are served. The tables have no delete
\* policy, so the rows go only if delete_user_account runs (wiped); signOut
\* either delivers the sign-out, after which the keys are removed, or throws
DeleteAllServe(wiped, signedOut) ==
    LET userId == deleteResult.userId IN
    /\ deleteResult.message = "deleting"
    /\ remote' = IF wiped
                 THEN [k \in Kinds |-> {r \in remote[k] : r.user_id # userId}]
                 ELSE remote
    /\ IF signedOut
       THEN /\ session' = NoUser
            /\ cachedUserId' = NoUser
            /\ store' = EmptyTables
            /\ calls' = notify(listeners)
            /\ deleteResult' = [message |-> "Account deleted", userId |-> NoUser]
       ELSE /\ UNCHANGED <<session, cachedUserId, store, calls>>
            /\ deleteResult' = [message |-> "Failed to delete account",
                                userId |-> NoUser]
    /\ UNCHANGED <<storageFull, restored, timers, syncStatus, passes, inflight,
                   reorderTask, now, nextId, listeners, peer, debounced>>

\* ---------------------------------------- the same store on a second device
\* the handlers above as they run in another browser, signed in as PeerOwner,
\* against the same remote tables
peerFrame ==
    UNCHANGED <<store, storageFull, cachedUserId, session, restored, timers,
                syncStatus, passes, inflight, reorderTask, now, listeners, calls,
                deleteResult, debounced>>

\* addLink there; the awaited write-through is served in the same step
peerAddLink(netOk) ==
    LET link == Entity(nextId, "b", "Web", NullId, 0, now, PeerOwner) IN
    /\ nextId <= MaxId
    /\ nextId' = nextId + 1
    /\ peer' = [peer EXCEPT !.store[LINKS_KEY] = Append(@, link)]
    /\ remote' = [remote EXCEPT ![LINKS_KEY] =
                     serveUpsert(@, upsertRow(link, PeerOwner), PeerOwner, netOk)]
    /\ peerFrame

\* fullSync there: the head of pullFromCloud
peerSyncNow ==
    /\ peer.pass.pc = "idle"
    /\ peer' = [peer EXCEPT !.pass = [IdlePass EXCEPT !.pc = "fetching",
                                                       !.userId = PeerOwner,
                                                       !.tok = PeerOwner],
                            !.syncStatus = [@ EXCEPT !.status = "syncing",
                                                     !.message = "Syncing..."]]
    /\ UNCHANGED <<remote, nextId>>
    /\ peerFrame

peerFetch(err) ==
    LET P == peer.pass IN
    /\ P.pc = "fetching"
    /\ peer' = IF err = "ok"
               THEN [peer EXCEPT !.pass.pc = "fetched",
                                 !.pass.R = [k \in Kinds |->
                                               selectAll(remote[k], P.userId, P.tok)]]
               ELSE [peer EXCEPT !.pass = IdlePass,
                                 !.syncStatus = [lastSync |-> @.lastSync,
                                                 status |-> "error",
                                                 message |-> "Sync failed: " \o err]]
    /\ UNCHANGED <<remote, nextId>>
    /\ peerFrame

\* the device after its pass P has persisted and reported
peerAfterPull(P) ==
    [store |-> composed(P), pass |-> IdlePass, syncStatus |-> successStatus(P)]

peerMerge ==
    LET P  == peer.pass
        lo == [k \in Kinds |-> localOnly(peer.store[k], P.R[k])]
        q  == tagged(CATEGORIES_KEY, lo[CATEGORIES_KEY])
                \o tagged(LINKS_KEY, lo[LINKS_KEY])
                \o tagged(NOTES_KEY, lo[NOTES_KEY])
        P1 == [P EXCEPT !.lo = lo, !.queue = q, !.pc = "pushing"]
    IN
    /\ P.pc = "fetched"
    /\ peer' = IF q = <<>> THEN peerAfterPull(P1) ELSE [peer EXCEPT !.pass = P1]
    /\ UNCHANGED <<remote, nextId>>
    /\ peerFrame

peerPush(netOk) ==
    LET P   == peer.pass
        h   == Head(P.queue)
        row == upsertRow(h.e, P.userId)
        ok  == upsertOk(remote[h.key], row, P.tok, netOk)
        P1  == [P EXCEPT !.queue = Tail(P.queue),
                         !.pushCount = IF ok THEN @ + 1 ELSE @]
    IN
    /\ P.pc = "pushing"
    /\ remote' = [remote EXCEPT ![h.key] = serveUpsert(@, row, P.tok, netOk)]
    /\ peer' = IF P1.queue = <<>> THEN peerAfterPull(P1)
               ELSE [peer EXCEPT !.pass = P1]
    /\ UNCHANGED nextId
    /\ peerFrame

\* ------------------------------------- debounced sync queue (older variant)
\* setCachedUserId(id)
setCachedUserId(id) ==
    /\ cachedUserId # id
    /\ cachedUserId' = id
    /\ UNCHANGED <<store, storageFull, remote, session, restored, timers,
                   syncStatus, passes, inflight, reorderTask, now, nextId,
                   listeners, calls, deleteResult, peer, debounced>>

\* syncQueue.findIndex(q => q.table === table && q.data.id === data.id), 0 for -1
existingIdx(q, table, id) ==
    LET hits == {i \in 1..Len(q) : q[i].table = table /\ q[i].data.id = id}
    IN IF hits = {} THEN 0 ELSE CHOOSE i \in hits : \A j \in hits : i <= j

\* enqueueSyncItem(table, data): replace the first pending item of the same
\* (table, id) or append, then restart the 500 ms timer
enqueueSyncItem(table, data) ==
    IF cachedUserId = NoUser
    THEN UNCHANGED <<syncQueue, syncTimer, latest>>
    ELSE LET idx == existingIdx(syncQueue, table, data.id)
             item == [table |-> table, data |-> data]
         IN /\ syncQueue' = IF idx > 0 THEN [syncQueue EXCEPT ![idx] = item]
                                       ELSE Append(syncQueue, item)
            /\ syncTimer' = TRUE
            /\ latest' = [latest EXCEPT ![<<table, data.id>>] = data.rev]

\* syncSingleCategory / syncSingleLink: the entity a mutation has just written
\* (here its id and the version of its content) is handed to the queue
syncSingle(table, id) ==
    /\ latest[<<table, id>>] < MaxRev
    /\ enqueueSyncItem(table, [id |-> id, rev |-> latest[<<table, id>>] + 1,
                                user_id |-> cachedUserId])
    /\ UNCHANGED <<store, storageFull, remote, cachedUserId, session, restored,
                   timers, syncStatus, passes, inflight, reorderTask, now,
                   nextId, listeners, calls, deleteResult, peer, flushes, cloud>>

\* the tables of a batch in the order of their first item (Object.entries)
RECURSIVE tablesOf(_)
tablesOf(batch) ==
    IF batch = <<>> THEN <<>>
    ELSE <<Head(batch).table>> \o
         SelectSeq(tablesOf(Tail(batch)), LAMBDA tb : tb # Head(batch).table)

RECURSIVE rowsOf(_, _, _)
\* grouped[table]: the data of the table's items, stamped with the cached owner
rowsOf(batch, table, owner) ==
    IF batch = <<>> THEN <<>>
    ELSE (IF Head(batch).table = table
          THEN <<[Head(batch).data EXCEPT !.user_id = owner]>> ELSE <<>>)
         \o rowsOf(Tail(batch), table, owner)

grouped(batch, owner) ==
    LET tbs == tablesOf(batch)
    IN [g \in 1..Len(tbs) |->
          [table |-> tbs[g], rows |-> rowsOf(batch, tbs[g], owner)]]

\* the timer fires: flushSyncQueue up to its first awaited upsert
flushSyncQueue(f) ==
    /\ syncTimer
    /\ flushes[f] = <<>>
    /\ \A g \in 1..MaxFlushes : flushes[g] = <<>> => f <= g
    /\ syncTimer' = FALSE
    /\ IF cachedUserId = NoUser \/ syncQueue = <<>>
       THEN UNCHANGED <<syncQueue, flushes>>
       ELSE /\ flushes' = [flushes EXCEPT ![f] = grouped(syncQueue, cachedUserId)]
            /\ syncQueue' = <<>>
    /\ UNCHANGED <<store, storageFull, remote, cachedUserId, session, restored,
                   timers, syncStatus, passes, inflight, reorderTask, now,
                   nextId, listeners, calls, deleteResult, peer, latest, cloud>>

RECURSIVE upserted(_, _, _)
\* upsert(rows, { onConflict: 'id' }) on one table
upserted(held, table, rows) ==
    IF rows = <<>> THEN held
    ELSE upserted([held EXCEPT ![<<table, Head(rows).id>>] = Head(rows).rev],
                  table, Tail(rows))

\* the awaited upsert of a flush resolves, with or without an error; on an
\* error its rows are pushed back onto the queue; the loop goes on to the
\* next table
FlushServe(f, netOk) ==
    /\ flushes[f] # <<>>
    /\ LET g == Head(flushes[f])
       IN /\ cloud' = IF netOk THEN upserted(cloud, g.table, g.rows) ELSE cloud
          /\ syncQueue' =
                IF netOk THEN syncQueue
                ELSE syncQueue \o [i \in 1..Len(g.rows) |->
                                     [table |-> g.table, data |-> g.rows[i]]]
    /\ flushes' = [flushes EXCEPT ![f] = Tail(flushes[f])]
    /\ UNCHANGED <<store, storageFull, remote, cachedUserId, session, restored,
                   timers, syncStatus, passes, inflight, reorderTask, now,
                   nextId, listeners, calls, deleteResult, peer, syncTimer,
                   latest>>

\* ------------------------------------------------------------------ inputs
OrderedIdLists ==
    {s \in UNION {[1..n -> Ids] : n \in 1..MaxId} :
        \A i, j \in 1..Len(s) : i # j => s[i] # s[j]}

FetchOutcomes == {"ok", "Categories", "Links", "Notes"}

Repository(names, types) ==
    \/ \E n \in names, t \in types : addCategory(n, t)
    \/ \E n \in names, t \in types, c \in {NullId} \cup IdsOf(getCategories) :
          addLink(n, t, c)
    \/ \E n \in names : addNote(n)
    \/ \E id \in Ids, u \in NamePatches : updateCategory(id, u)
    \/ \E id \in Ids, u \in NamePatches \cup CategoryIdPatches : updateLink(id, u)
    \/ \E id \in Ids, u \in NamePatches : updateNote(id, u)
    \/ \E id \in Ids : deleteCategory(id)
    \/ \E id \in Ids : deleteLink(id)
    \/ \E id \in Ids : deleteNote(id)
    \/ \E ids \in OrderedIdLists : reorderCategories(ids)
    \/ \E ids \in OrderedIdLists : reorderLinks(ids)

Pull ==
    \/ \E p \in 1..MaxPasses, err \in FetchOutcomes : PassFetch(p, err)
    \/ \E p \in 1..MaxPasses : PassMerge(p)
    \/ \E p \in 1..MaxPasses, netOk \in BOOLEAN : PassPush(p, netOk)

Triggers ==
    \/ \E p \in 1..MaxPasses : SyncNow(p)
    \/ \E p \in 1..MaxPasses : TimerFire(p)

Network ==
    \/ \E netOk \in BOOLEAN : ReorderPush(netOk)
    \/ \E req \in inflight, netOk \in BOOLEAN : RemoteApply(req, netOk)

Auth(owners) ==
    \/ \E u \in owners \cup {NoUser} : AuthEvent(u)
    \/ GetSessionResolve

Next == Repository({"a"}, {"Web"}) \/ Pull \/ Triggers \/ Network \/ Auth(Owners) \/ Tick

Spec == Init /\ [][Next]_vars

\* ------------------------------------------------- run-to-completion schedule
\* some asynchronous work of the tab is still awaiting the server
Busy ==
    \/ inflight # {}
    \/ reorderTask.queue # <<>>
    \/ \E p \in 1..MaxPasses : passes[p].pc # "idle"

LinkCalls ==
    \/ addLink("a", "Web", NullId)
    \/ \E id \in Ids, u \in NamePatches : updateLink(id, u)
    \/ \E id \in Ids : deleteLink(id)

SignInOut == \E u \in {"A", NoUser} : AuthEvent(u)

InitSeq == Init /\ session = NoUser

\* one owner, links only; every call, with all the requests it issues, completes
\* before the next event: a pass runs with nothing interleaved
NextSeq ==
    \/ ~Busy /\ LinkCalls
    \/ ~Busy /\ Triggers
    \/ ~Busy /\ SignInOut
    \/ ~Busy /\ Tick
    \/ Pull
    \/ \E req \in inflight, netOk \in BOOLEAN : RemoteApply(req, netOk)

SpecSeq == InitSeq /\ [][NextSeq]_vars

\* one owner, categories and links with reordering, run to completion
CategoryAndLinkCalls ==
    \/ addCategory("a", "Web")
    \/ \E c \in {NullId} \cup IdsOf(getCategories) : addLink("a", "Web", c)
    \/ \E id \in Ids : deleteCategory(id)
    \/ \E id \in Ids : deleteLink(id)
    \/ \E ids \in OrderedIdLists : reorderCategories(ids)
    \/ \E ids \in OrderedIdLists : reorderLinks(ids)

NextRepo ==
    \/ ~Busy /\ CategoryAndLinkCalls
    \/ ~Busy /\ Triggers
    \/ ~Busy /\ SignInOut
    \/ Pull
    \/ Network

SpecRepo == InitSeq /\ [][NextRepo]_vars

\* no pullFromCloud is in flight
NoPass == \A p \in 1..MaxPasses : passes[p].pc = "idle"

\* two owners on one device; write-throughs, auth events and one pass at a time
\* interleave
LinkAndNoteAdds ==
    \/ addLink("a", "Web", NullId)
    \/ addNote("a")

NextAuth ==
    \/ LinkAndNoteAdds
    \/ NoPass /\ Triggers
    \/ Auth(Owners)
    \/ Pull
    \/ \E req \in inflight, netOk \in BOOLEAN : RemoteApply(req, netOk)

SpecAuth == Init /\ [][NextAuth]_vars

\* one owner; account deletion, sign-in and sign-out, adds and one pass at a
\* time interleave
NextAccount ==
    \/ addLink("a", "Web", NullId)
    \/ SignInOut
    \/ NoPass /\ Triggers
    \/ Pull
    \/ \E req \in inflight, netOk \in BOOLEAN : RemoteApply(req, netOk)
    \/ deleteAllUserData
    \/ \E wiped, signedOut \in BOOLEAN : DeleteAllServe(wiped, signedOut)

SpecAccount == InitSeq /\ [][NextAccount]_vars

\* one owner; adds and imports of links interleave with passes that may
\* overlap, deletes come between passes; a write-through is served before the
\* next call
LinkEdits ==
    \/ addLink("a", "Web", NullId)
    \/ \E rowId \in RowIds : importFromCSV(LINKS_KEY, rowId, "a")
    \/ NoPass /\ \E id \in Ids : deleteLink(id)

Settled == inflight = {}

NextIds ==
    \/ Settled /\ LinkEdits
    \/ cachedUserId = NoUser /\ AuthEvent("A")
    \/ Settled /\ Triggers
    \/ Settled /\ Pull
    \/ \E req \in inflight, netOk \in BOOLEAN : RemoteApply(req, netOk)

SpecIds == InitSeq /\ [][NextIds]_vars

\* components subscribe and unsubscribe while notes are added and deleted,
\* through the store module of either source file
Subscriptions ==
    \/ \E fn \in Listeners : subscribe(fn)
    \/ \E fn \in Listeners : unsubscribe(fn)

NoteCalls ==
    \/ addNote("a")
    \/ \E id \in Ids : deleteNote(id)

NextBus ==
    \/ Subscriptions
    \/ NoteCalls
    \/ addNoteStoreTs("b")
    \/ SignInOut
    \/ \E req \in inflight, netOk \in BOOLEAN : RemoteApply(req, netOk)

SpecBus == InitSeq /\ [][NextBus]_vars

\* one owner; adds, updates and deletes of links run at any point of a pass,
\* one pass at a time; a write-through is served before the next call
NextRace ==
    \/ Settled /\ LinkCalls
    \/ cachedUserId = NoUser /\ AuthEvent("A")
    \/ Settled /\ NoPass /\ Triggers
    \/ Settled /\ Pull
    \/ \E req \in inflight, netOk \in BOOLEAN : RemoteApply(req, netOk)

SpecRace == InitSeq /\ [][NextRace]_vars

\* one owner; passes started by the timer and by "sync now" overlap; links are
\* added, updated and deleted between passes only
NextOverlap ==
    \/ Settled /\ NoPass /\ LinkCalls
    \/ cachedUserId = NoUser /\ AuthEvent("A")
    \/ Settled /\ Triggers
    \/ Settled /\ Pull
    \/ \E req \in inflight, netOk \in BOOLEAN : RemoteApply(req, netOk)

SpecOverlap == InitSeq /\ [][NextOverlap]_vars

\* the remote calls of the pass in slot p resolving
PullOf(p) ==
    \/ \E err \in FetchOutcomes : PassFetch(p, err)
    \/ PassMerge(p)
    \/ \E netOk \in BOOLEAN : PassPush(p, netOk)

\* one owner, overlapping passes, links added at any time; every remote call
\* of a pass resolves in the end
NextLive ==
    \/ Settled /\ addLink("a", "Web", NullId)
    \/ cachedUserId = NoUser /\ AuthEvent("A")
    \/ Triggers
    \/ \E p \in 1..MaxPasses : PullOf(p)
    \/ \E req \in inflight, netOk \in BOOLEAN : RemoteApply(req, netOk)

SpecLive ==
    /\ InitSeq
    /\ [][NextLive]_vars
    /\ \A p \in 1..MaxPasses : WF_vars(PullOf(p))

\* one owner, no pass: categories and links are added and patched, with known
\* and unknown ids, as the clock advances and a component subscribes
Patches == NamePatches \cup CategoryIdPatches \cup {NoPatch}

NextPatch ==
    \/ Settled /\ addCategory("a", "Web")
    \/ Settled /\ addLink("a", "Web", NullId)
    \/ Settled /\ \E id \in Ids, u \in Patches : updateLink(id, u)
    \/ Settled /\ \E id \in Ids, u \in NamePatches : updateCategory(id, u)
    \/ Settled /\ SignInOut
    \/ Settled /\ Tick
    \/ subscribe("f")
    \/ unsubscribe("f")
    \/ \E req \in inflight, netOk \in BOOLEAN : RemoteApply(req, netOk)

SpecPatch == InitSeq /\ [][NextPatch]_vars

\* one owner, no pass: links are added, deleted and reordered while setItem
\* may be failing, with a component subscribed
NextQuota ==
    \/ \E full \in BOOLEAN : QuotaChange(full)
    \/ Settled /\ addLink("a", "Web", NullId)
    \/ Settled /\ \E id \in Ids : deleteLink(id)
    \/ Settled /\ reorderTask.queue = <<>> /\ \E ids \in OrderedIdLists : reorderLinks(ids)
    \/ cachedUserId = NoUser /\ AuthEvent("A")
    \/ subscribe("f")
    \/ Network

SpecQuota == InitSeq /\ [][NextQuota]_vars

\* one owner, one pass at a time over categories and links, with a component
\* that subscribes and unsubscribes at any point of the pass
NextNotify ==
    \/ Settled /\ NoPass /\ addCategory("a", "Web")
    \/ Settled /\ NoPass /\ addLink("a", "Web", NullId)
    \/ cachedUserId = NoUser /\ AuthEvent("A")
    \/ Settled /\ NoPass /\ Triggers
    \/ Pull
    \/ subscribe("f")
    \/ unsubscribe("f")
    \/ \E req \in inflight, netOk \in BOOLEAN : RemoteApply(req, netOk)

SpecNotify == InitSeq /\ [][NextNotify]_vars

\* two devices of owner A; a device adds its links before it first reconciles,
\* then the passes of the two interleave
Peer ==
    \/ \E netOk \in BOOLEAN : peer.syncStatus = IdleStatus /\ peerAddLink(netOk)
    \/ peerSyncNow
    \/ \E err \in FetchOutcomes : peerFetch(err)
    \/ peerMerge
    \/ \E netOk \in BOOLEAN : peerPush(netOk)

NextDevices ==
    \/ syncStatus = IdleStatus /\ addLink("a", "Web", NullId)
    \/ cachedUserId = NoUser /\ AuthEvent(PeerOwner)
    \/ NoPass /\ Triggers
    \/ Pull
    \/ \E req \in inflight, netOk \in BOOLEAN : RemoteApply(req, netOk)
    \/ Peer

SpecDevices == InitSeq /\ [][NextDevices]_vars

\* the debounced sync queue of the older variant, with sign-in and sign-out of
\* one owner
NextQueue ==
    \/ \E id \in {"A", NoUser} : setCachedUserId(id)
    \/ \E k \in QueueKeys : syncSingle(k[1], k[2])
    \/ \E f \in 1..MaxFlushes : flushSyncQueue(f)
    \/ \E f \in 1..MaxFlushes, netOk \in BOOLEAN : FlushServe(f, netOk)

SpecQueue == Init /\ [][NextQueue]_vars

\* the same queue while one owner signs in and stays signed in; a pending
\* timer fires and an awaited upsert resolves
NextQueueLive ==
    \/ cachedUserId = NoUser /\ setCachedUserId("A")
    \/ \E k \in QueueKeys : syncSingle(k[1], k[2])
    \/ \E f \in 1..MaxFlushes : flushSyncQueue(f)
    \/ \E f \in 1..MaxFlushes, netOk \in BOOLEAN : FlushServe(f, netOk)

SpecQueueLive ==
    /\ Init
    /\ [][NextQueueLive]_vars
    /\ \A f \in 1..MaxFlushes : WF_vars(flushSyncQueue(f))
    /\ \A f \in 1..MaxFlushes : WF_vars(\E netOk \in BOOLEAN : FlushServe(f, netOk))

\* ================================================================ claims
entityOf(seq, id) == seq[findIndex(seq, id)]
Range(seq) == {seq[i] : i \in 1..Len(seq)}

\* slot p persists its composed state in this step
Completes(p) == passes[p].pc \in {"fetched", "pushing"} /\ passes'[p].pc = "idle"

\* the fields an upsert carries besides the owner stamp
PushedFields == {"id", "name", "type", "category_id", "position", "created_at",
                 "updated_at", "is_deleted"}
SameFields(row, e) == \A f \in PushedFields : row[f] = e[f]
Mirrored(rows, e, owner) ==
    \E r \in rows : r.id = e.id /\ r.user_id = owner /\ SameFields(r, e)

\* C1 (as claimed): when a pass with nothing interleaved persists, an entity
\* held both locally and in the fetched rows is stored as the copy with the
\* later updated_at, the remote copy on a tie.
MergeRecencyLaw ==
    [][\A p \in 1..MaxPasses, k \in Kinds :
          Completes(p) =>
            \A i \in 1..Len(store[k]), j \in 1..Len(passes[p].R[k]) :
               store[k][i].id = passes[p].R[k][j].id =>
                 entityOf(store'[k], store[k][i].id) =
                    IF store[k][i].updated_at > passes[p].R[k][j].updated_at
                    THEN store[k][i] ELSE passes[p].R[k][j]]_vars

\* every entity the pass of slot p keeps as local-only is mirrored remotely for
\* the owner of the pass once it has persisted
PushesLanded(p) ==
    \A k \in Kinds : \A e \in Range(store'[k]) :
        e.id \notin IdsOf(passes[p].R[k]) => Mirrored(remote'[k], e, passes[p].userId)

\* the last upsert of the push loop of slot p is accepted and so were all before
AllAccepted(p, netOk) ==
    LET P == passes[p]
        h == Head(P.queue)
    IN /\ upsertOk(remote[h.key], upsertRow(h.e, P.userId), P.tok, netOk)
       /\ P.pushCount + 1 = Len(P.lo[CATEGORIES_KEY]) + Len(P.lo[LINKS_KEY])
                              + Len(P.lo[NOTES_KEY])

SoftDeletePropagation ==
    [][\A p \in 1..MaxPasses, k \in Kinds :
          Completes(p) =>
            \A i \in 1..Len(store[k]) :
               store[k][i].is_deleted =>
                  /\ findIndex(store'[k], store[k][i].id) # 0
                  /\ entityOf(store'[k], store[k][i].id).is_deleted
                  /\ store[k][i].id \notin IdsOf(getAll(k)')
                  /\ PushesLanded(p) =>
                       \E r \in remote'[k] :
                          /\ r.id = store[k][i].id
                          /\ r.is_deleted
                          /\ r.updated_at >= r.created_at]_vars

\* C6 (as claimed): when a pass completes successfully (its pushes having
\* landed), no local value is lost (owner stamp aside) and every local entity
\* has a remote row equal to it.
RetryOfFailedWriteThrough ==
    [][\A p \in 1..MaxPasses, k \in Kinds :
          (Completes(p) /\ PushesLanded(p)) =>
            \A i \in 1..Len(store[k]) :
               /\ \E e \in Range(store'[k]) :
                     e.id = store[k][i].id /\ SameFields(e, store[k][i])
               /\ Mirrored(remote'[k], store[k][i], passes[p].userId)]_vars

TombstonesKept ==
    [][\A k \in Kinds : \A i \in 1..Len(store[k]) :
          (store[k][i].is_deleted
             /\ ~(cachedUserId # NoUser /\ cachedUserId' = NoUser)) =>
            /\ findIndex(store'[k], store[k][i].id) # 0
            /\ entityOf(store'[k], store[k][i].id).is_deleted]_vars

\* get() of every kind is empty
AllGetEmpty == getCategories = <<>> /\ getLinks = <<>> /\ getNotes = <<>>

\* C4 (as claimed): once the sign-out has erased the partitions, get() of every
\* kind stays empty while no owner is cached, until the next repository add.
SignOutErasure ==
    [][(/\ cachedUserId = NoUser
        /\ cachedUserId' = NoUser
        /\ AllGetEmpty
        /\ nextId' = nextId) => AllGetEmpty']_vars

\* C5 (as claimed): while an owner is cached, no local entity carries another
\* owner's stamp, and no entity stamped by one owner is stored remotely under
\* another.
CrossOwnerIsolation ==
    /\ cachedUserId # NoUser =>
          \A k \in Kinds : \A e \in Range(store[k]) :
              e.user_id \in {NoUser, cachedUserId}
    /\ \A k \in Kinds : \A e \in Range(store[k]) : \A r \in remote[k] :
          (r.id = e.id /\ e.user_id # NoUser) => r.user_id = e.user_id

\* C8 (as claimed): no non-deleted link of the local store references a
\* category that is soft-deleted.
NoDanglingCategory ==
    \A l \in Range(getLinks) : \A c \in Range(loadLocal(CATEGORIES_KEY)) :
        c.id = l.category_id => ~c.is_deleted

RECURSIVE SortedByPosition(_)
\* the ids of a collection in ascending order of position
SortedByPosition(seq) ==
    IF seq = <<>> THEN <<>>
    ELSE LET i == CHOOSE i \in 1..Len(seq) :
                     /\ \A j \in 1..Len(seq) : seq[i].position <= seq[j].position
                     /\ \A j \in 1..(i - 1) : seq[j].position # seq[i].position
         IN <<seq[i].id>>
              \o SortedByPosition(SubSeq(seq, 1, i - 1) \o SubSeq(seq, i + 1, Len(seq)))

\* the permutations of the non-deleted ids of a partition
PermutationsOf(live) ==
    {ids \in OrderedIdLists : Range(ids) = IdsOf(live) /\ Len(ids) = Len(live)}

Reordered(ids, key) ==
    /\ \A i \in 1..Len(ids) : entityOf(store'[key], ids[i]).position = i - 1
    /\ SortedByPosition(getAll(key)') = ids

\* C10: after reorder(ids) with ids a permutation of the non-deleted ids of the
\* partition, every ids[i] has position i (counted from 0) and get() sorted by
\* position is ids.
ReorderMonotonicity ==
    [][/\ \A ids \in PermutationsOf(getLinks) :
             reorderLinks(ids) => Reordered(ids, LINKS_KEY)
       /\ \A ids \in PermutationsOf(getCategories) :
             reorderCategories(ids) => Reordered(ids, CATEGORIES_KEY)]_vars

\* C10 witness: two live links, the one created later now first
ReorderedLinks ==
    /\ Len(getLinks) = 2
    /\ \E i, j \in 1..2 :
          /\ getLinks[i].id < getLinks[j].id
          /\ getLinks[i].position = 1
          /\ getLinks[j].position = 0

\* the pass of the second device persists in this step
peerCompletes == peer.pass.pc \in {"fetched", "pushing"} /\ peer'.pass.pc = "idle"

IdsOfRows(rows) == {r.id : r \in rows}

PushedOnce(rows1, row, tok, netOk) ==
    /\ Cardinality({r \in rows1 : r.id = row.id}) <= 1
    /\ (netOk /\ row \in rows1) => serveUpsert(rows1, row, tok, netOk) = rows1
    /\ serveUpsert(serveUpsert(rows1, row, tok, netOk), row, tok, netOk)
          = serveUpsert(rows1, row, tok, netOk)

RemoteReadFailure ==
    [][\A p \in 1..MaxPasses, err \in FetchOutcomes \ {"ok"} :
          PassFetch(p, err) =>
             /\ syncStatus'.status = "error"
             /\ syncStatus'.message = "Sync failed: " \o err
             /\ syncStatus'.lastSync = syncStatus.lastSync
             /\ store' = store
             /\ remote' = remote
             /\ inflight' = inflight
             /\ passes'[p].pc = "idle"
             /\ passes'[p].queue = <<>>]_vars

\* C13 witness: a pass has failed on its fetch after an earlier pass had
\* succeeded, with a link held locally
FetchFailedAfterSuccess ==
    /\ syncStatus.status = "error"
    /\ syncStatus.message = "Sync failed: Links"
    /\ syncStatus.lastSync # NullTime
    /\ store[LINKS_KEY] # <<>>

\* C14: a pass (sync now or the scheduled one) or a deleteAllUserData started
\* with no cached owner issues no remote request, changes no local partition
\* and no remote table, and reports 'Not signed in'.
AuthenticationAbsence ==
    [][/\ \A p \in 1..MaxPasses :
             (cachedUserId = NoUser /\ (SyncNow(p) \/ TimerFire(p))) =>
                /\ syncStatus'.status = "error"
                /\ syncStatus'.message = "Not signed in"
                /\ passes' = passes
                /\ <<store, remote, inflight>>' = <<store, remote, inflight>>
       /\ (cachedUserId = NoUser /\ deleteAllUserData) =>
                /\ deleteResult'.message = "Not signed in"
                /\ <<store, remote, inflight, session>>'
                      = <<store, remote, inflight, session>>]_vars

\* C14 witness: a guest holding a link has asked for a sync and for the
\* account deletion, and both have reported 'Not signed in'
GuestRefusedTwice ==
    /\ cachedUserId = NoUser
    /\ syncStatus.message = "Not signed in"
    /\ deleteResult.message = "Not signed in"
    /\ store[LINKS_KEY] # <<>>

\* C15 (as claimed): the updated_at stored locally for an id never decreases in
\* any step that keeps the entity, a pass that replaces it included.
UpdatedAtNeverDecreases ==
    [][\A k \in Kinds : \A i \in 1..Len(store[k]) :
          findIndex(store'[k], store[k][i].id) # 0 =>
             entityOf(store'[k], store[k][i].id).updated_at
                >= store[k][i].updated_at]_vars

\* C17 (as claimed): every step in which the cached owner goes from absent to
\* present schedules one pass.
OwnerChangeSchedulesPass ==
    [][(cachedUserId = NoUser /\ cachedUserId' # NoUser) =>
          timers' = timers + 1]_vars

\* C18 (as claimed): lastSync changes only in a step that sets the status to
\* success.
LastSyncKept ==
    [][syncStatus'.lastSync # syncStatus.lastSync =>
          syncStatus'.status = "success"]_vars

\* C20 (as claimed): once a pass has persisted, its pushes having landed, every
\* entity of the local partitions carries the id of the owner the pass ran for.
OwnerStampedAfterPass ==
    [][\A p \in 1..MaxPasses : (Completes(p) /\ PushesLanded(p)) =>
          \A k \in Kinds : \A e \in Range(store'[k]) :
              e.user_id = passes[p].userId]_vars

UniqueIds(seq) == \A i, j \in 1..Len(seq) : seq[i].id = seq[j].id => i = j

\* C16: no partition ever holds two entities with one id, whatever adds,
\* deletes, CSV imports and overlapping passes have run; and a step that is
\* neither a pass completing nor a change of owner leaves every entity at its
\* index with the id it had.
IdentityUniqueness ==
    /\ [](\A k \in Kinds : UniqueIds(store[k]))
    /\ [][ ((\A p \in 1..MaxPasses : ~Completes(p)) /\ cachedUserId' = cachedUserId)
           => \A k \in Kinds : \A i \in 1..Len(store[k]) :
                  i <= Len(store'[k]) /\ store'[k][i].id = store[k][i].id ]_vars

\* C16 witness: two passes overlap, both past their fetch with rows to push,
\* over a partition of two links
OverlappingPassesOverTwoLinks ==
    /\ \A p \in 1..MaxPasses : passes[p].pc = "pushing"
    /\ Len(store[LINKS_KEY]) = 2
    /\ remote[LINKS_KEY] # {}

Distinct(seq) == \A i, j \in 1..Len(seq) : seq[i] = seq[j] => i = j

\* C19: a mutation that calls notify() invokes every listener registered at
\* that moment exactly once, in registration order, the ones registered after
\* a throwing listener included; and the mutation still saves its change and,
\* with a session, issues its write-through.
NotifyIsolation ==
    [][ ((NoteCalls \/ addNoteStoreTs("b")) /\ store' # store)
        => /\ calls' = listeners
           /\ Distinct(calls')
           /\ (cachedUserId # NoUser /\ session # NoUser) => inflight' # inflight ]_vars

\* ------------------------------------------------------------ C21 .. C30
\* C21: a pass that composes with no mutation interleaved leaves in every
\* partition exactly the ids fetched and the ids held before, one entity each:
\* a fetched id carries the fetched row, an id held only locally carries the
\* local entity unchanged, and nothing else is kept.
CompositionRule ==
    [][ \A p \in 1..MaxPasses : Completes(p) =>
          \A k \in Kinds :
            LET R == passes[p].R[k]
                L == store[k]
            IN /\ IdsOf(store'[k]) = IdsOf(R) \cup IdsOf(L)
               /\ Len(store'[k]) = Cardinality(IdsOf(R) \cup IdsOf(L))
               /\ \A e \in Range(store'[k]) :
                     IF e.id \in IdsOf(R) THEN e \in Range(R) ELSE e \in Range(L) ]_vars

\* C21 witness: a pass has persisted a partition that holds a fetched row of
\* the owner next to an entity nobody has stamped
ComposedOfBoth ==
    /\ NoPass
    /\ syncStatus.status = "success"
    /\ \E e \in Range(store[LINKS_KEY]) :
          e.user_id = NoUser /\ ~(\E r \in remote[LINKS_KEY] : r.id = e.id)
    /\ \E e \in Range(store[LINKS_KEY]) :
          e.user_id # NoUser /\ \E r \in remote[LINKS_KEY] : r.id = e.id /\ SameFields(r, e)

\* C22: whatever update or delete has run since the fetch, a pass that
\* completes leaves, for every fetched id, the fetched row in the partition: a
\* stored entity of that id that differs from the fetched row is gone.
LostEditRace ==
    [][ \A p \in 1..MaxPasses : Completes(p) =>
          \A k \in Kinds :
            /\ \A r \in Range(passes[p].R[k]) : r \in Range(store'[k])
            /\ \A e \in Range(store[k]) :
                  (e.id \in IdsOf(passes[p].R[k]) /\ e \notin Range(passes[p].R[k]))
                     => e \notin Range(store'[k]) ]_vars

\* C22 witness: no pass is running, the remote row of a link carries a soft
\* delete whose write-through was accepted, and the stored link is the older,
\* live copy a pass put back
EditOverwritten ==
    /\ NoPass
    /\ syncStatus.status = "success"
    /\ inflight = {}
    /\ \E e \in Range(store[LINKS_KEY]) : \E r \in remote[LINKS_KEY] :
          /\ r.id = e.id
          /\ r.user_id = cachedUserId
          /\ r.is_deleted /\ ~e.is_deleted

\* C23: a link added while a pass is in flight is still in the partition after
\* the pass has persisted: completing a pass removes no id from a partition.
AddSurvivesPass ==
    [][ \A p \in 1..MaxPasses : Completes(p) =>
          \A k \in Kinds : IdsOf(store[k]) \subseteq IdsOf(store'[k]) ]_vars

\* C24: passes may overlap; whenever one of them persists, every partition
\* becomes the state that pass composed (its fetched rows, then the local-only
\* entities it read when it resumed), whatever another pass persisted before;
\* and with no mutation during the passes no id leaves a partition.
LastPersistWins ==
    [][ \A p \in 1..MaxPasses : Completes(p) =>
          \A k \in Kinds :
            /\ store'[k] = passes[p].R[k] \o
                              (IF passes[p].pc = "pushing" THEN passes[p].lo[k] ELSE <<>>)
            /\ IdsOf(store[k]) \subseteq IdsOf(store'[k]) ]_vars

\* C24 witness: two passes are in flight at once, the second having fetched
\* before the first persisted, over a partition that holds a link
TwoPassesInFlight ==
    /\ \A p \in 1..MaxPasses : passes[p].pc \in {"fetched", "pushing"}
    /\ store[LINKS_KEY] # <<>>

\* C25: in every state in which a pass has started and not yet finished, the
\* shared status is "syncing".
StatusGuardsInFlight ==
    (\E p \in 1..MaxPasses : passes[p].pc # "idle") => syncStatus.status = "syncing"

\* C26: when every remote call of a pass resolves, a pass that has set the
\* status to "syncing" returns, and the step in which it returns sets the
\* status to "success" or "error", whichever fetches and upserts failed.
PassTermination ==
    /\ \A p \in 1..MaxPasses : (passes[p].pc # "idle") ~> (passes[p].pc = "idle")
    /\ [][ \A p \in 1..MaxPasses :
             (passes[p].pc # "idle" /\ passes'[p].pc = "idle")
                => syncStatus'.status \in {"success", "error"} ]_vars

\* C26 witness: a pass has returned "success" although the upsert of its push
\* loop failed: the guest's link, which only a pass pushes, has no remote row
ReturnedDespiteFailedPush ==
    /\ NoPass
    /\ inflight = {}
    /\ syncStatus.status = "success"
    /\ syncStatus.message = "Synced!"
    /\ cachedUserId # NoUser
    /\ \E e \in Range(store[LINKS_KEY]) :
          e.user_id = NoUser /\ ~(\E r \in remote[LINKS_KEY] : r.id = e.id)

OnlyMovedTouched(key) ==
    /\ \A i \in 1..Len(store[key]) :
          store'[key][i].position = store[key][i].position
             => store'[key][i] = store[key][i]
    /\ \A e \in Range(reorderTask'.queue) :
          entityOf(store[key], e.id).position # e.position

\* C27: reorder(ids) re-stamps updated_at and issues an upsert only for the
\* entities whose position changed; an entity already at its index keeps its
\* updated_at and is not sent.
ReorderTouchesOnlyMoved ==
    [][/\ \A ids \in OrderedIdLists :
             reorderLinks(ids) => OnlyMovedTouched(LINKS_KEY)
       /\ \A ids \in OrderedIdLists :
             reorderCategories(ids) => OnlyMovedTouched(CATEGORIES_KEY)]_vars

\* the entity an add has pushed is one past the live entities of its type
AppendedLast(key) ==
    LET new      == store'[key][Len(store'[key])]
        existing == {e \in Range(store[key]) : ~e.is_deleted /\ e.type = new.type}
    IN IF existing = {} THEN new.position = 0
       ELSE /\ \A e \in existing : e.position < new.position
            /\ \E e \in existing : new.position = e.position + 1

\* C28: add() gives the new category or link the position 1 + the maximum
\* position among the existing entities of its type (0 when there is none), so
\* that it sorts after all of them.
AddAppendsAtEnd ==
    [][/\ addCategory("a", "Web") => AppendedLast(CATEGORIES_KEY)
       /\ (\E c \in {NullId} \cup IdsOf(getCategories) : addLink("a", "Web", c))
             => AppendedLast(LINKS_KEY)]_vars

\* C29: addLink leaves the new link, created_at = updated_at, at the end of
\* the partition and issues one upsert of it when an owner is cached and none
\* otherwise; the upsert being served, accepted or not, leaves the partitions
\* as they are.
AddIndependentOfRemote ==
    [][/\ addLink("a", "Web", NullId) =>
             LET new == store'[LINKS_KEY][Len(store'[LINKS_KEY])] IN
             /\ Len(store'[LINKS_KEY]) = Len(store[LINKS_KEY]) + 1
             /\ new.id = nextId
             /\ new.created_at = now /\ new.updated_at = new.created_at
             /\ cachedUserId = NoUser => inflight' = inflight
             /\ cachedUserId # NoUser =>
                   \E req \in inflight' : /\ inflight' = inflight \cup {req}
                                           /\ req \notin inflight
                                           /\ req.key = LINKS_KEY
                                           /\ SameFields(req.row, new)
       /\ \A req \in inflight, netOk \in BOOLEAN :
             RemoteApply(req, netOk) => store' = store]_vars

\* C29 witness: the owner's link is in the partition, its write-through has
\* been served and refused, and no remote row of it exists
AddedThoughUpsertFailed ==
    /\ inflight = {}
    /\ NoPass
    /\ cachedUserId # NoUser
    /\ \E e \in Range(store[LINKS_KEY]) :
          /\ e.user_id = cachedUserId
          /\ e.created_at = e.updated_at
          /\ ~(\E r \in remote[LINKS_KEY] : r.id = e.id)

\* what update(id, u) on partition key may change
PatchedOnly(key, id, u) ==
    IF id \notin IdsOf(store[key])
    THEN store' = store /\ inflight' = inflight /\ calls' = calls
    ELSE \A k \in Kinds :
           /\ Len(store'[k]) = Len(store[k])
           /\ \A i \in 1..Len(store[k]) :
                 LET old == store[k][i]
                     new == store'[k][i]
                 IN IF k = key /\ old.id = id
                    THEN /\ new.name = IF u.name # UndefS THEN u.name ELSE old.name
                         /\ new.category_id = IF u.category_id # UndefN
                                               THEN u.category_id ELSE old.category_id
                         /\ new.updated_at = now
                         /\ \A f \in {"id", "type", "position", "created_at",
                                        "is_deleted", "user_id"} : new[f] = old[f]
                    ELSE new = old

\* C30: update(id, patch) of an id that is not in the partition writes
\* nothing, notifies nobody and sends nothing; of a known id it changes the
\* fields present in the patch and updated_at of that entity and nothing else.
UpdateFrame ==
    [][/\ \A id \in Ids, u \in Patches :
             updateLink(id, u) => PatchedOnly(LINKS_KEY, id, u)
       /\ \A id \in Ids, u \in NamePatches :
             updateCategory(id, u) => PatchedOnly(CATEGORIES_KEY, id, u)]_vars

\* C30 witness: a link renamed after its creation, filed under a category, in
\* a partition with a listener that the last notify() reached
LinkPatched ==
    \E e \in Range(store[LINKS_KEY]) :
        /\ e.name = "b"
        /\ e.category_id # NullId
        /\ e.updated_at > e.created_at
        /\ calls # <<>>

\* ------------------------------------------------------------ C31 .. C38
\* C31: an add whose save fails still notifies the listeners, and the link it
\* created is among what getLinks() returns afterwards.
SaveFailureKeepsMutation ==
    [][ addLink("a", "Web", NullId) =>
          /\ calls' = listeners
          /\ \E e \in Range(getLinks') : e.id = nextId ]_vars

OwnedRows(rows, owner) == {r \in rows : r.user_id = owner}

\* C33: when a pass completes with all its pushes accepted, every partition
\* holds exactly the owner's remote rows, value for value.
LocalEqualsRemoteAfterPass ==
    [][ \A p \in 1..MaxPasses : (Completes(p) /\ PushesLanded(p)) =>
          \A k \in Kinds :
             Range(store'[k]) = OwnedRows(remote'[k], passes[p].userId) ]_vars

\* C34: an auth event sets the cached owner to the owner it carries, and the
\* cached owner never changes to anything but the owner of the session; an
\* event that leaves the same owner present erases nothing and schedules no
\* pass; an event without an owner while anonymous erases nothing.
SessionTrackerFrame ==
    [][/\ \A u \in Owners \cup {NoUser} : AuthEvent(u) =>
             /\ cachedUserId' = u
             /\ (u # NoUser /\ cachedUserId = u) =>
                   store' = store /\ timers' = timers /\ passes' = passes
             /\ (u = NoUser /\ cachedUserId = NoUser) => store' = store
       /\ cachedUserId' # cachedUserId => cachedUserId' = session']_vars

\* C34 witness: owner B is cached and is the owner of the session, B's link
\* is stored, and neither a timer nor a pass is pending: the state a token
\* refresh must leave as it is
SignedInAtRest ==
    /\ cachedUserId = "B" /\ session = "B" /\ restored
    /\ timers = 0 /\ NoPass /\ inflight = {}
    /\ \E e \in Range(store[LINKS_KEY]) : e.user_id = "B"

\* C35: deleteAllUserData answers "Account deleted" only when the owner's
\* remote rows of all three kinds are gone, and then the partitions are
\* empty; otherwise it answers with a failure and leaves the partitions alone.
DeleteReportsTruthfully ==
    [][ \A wiped, signedOut \in BOOLEAN : DeleteAllServe(wiped, signedOut) =>
          IF \A k \in Kinds : OwnedRows(remote'[k], deleteResult.userId) = {}
          THEN deleteResult'.message = "Account deleted" => store' = EmptyTables
          ELSE deleteResult'.message = "Failed to delete account" /\ store' = store
      ]_vars

\* C36: the owner an upsert of the push loop is stamped with is the owner that
\* was cached when the upsert was issued.
UpsertsCarryCachedOwner ==
    [][ \A p \in 1..MaxPasses, netOk \in BOOLEAN :
          PassPush(p, netOk) => passes[p].userId = passes[p].tok ]_vars

\* C37: while an owner stays signed in, a pending item of the sync queue is
\* eventually taken into a flush, rows re-queued by a failed flush included.
QueueDrains ==
    (cachedUserId # NoUser /\ syncQueue # <<>>) ~> (syncQueue = <<>>)

\* C38: the queue holds at most one pending item per (table, id), and that
\* item carries the data most recently enqueued for the id.
OnePendingLatest ==
    \A i \in 1..Len(syncQueue) :
        /\ existingIdx(syncQueue, syncQueue[i].table, syncQueue[i].data.id) = i
        /\ syncQueue[i].data.rev =
               latest[<<syncQueue[i].table, syncQueue[i].data.id>>]

====
